---- MODULE Spec2Model ----
(***************************************************************************)
(* A model of tap-gorgias (src/tap_gorgias/streams.py).                    *)
(*                                                                         *)
(* Spec          the ticket_details record pipeline: one response body is  *)
(*               parsed by TicketDetailsStream.parse_response and each     *)
(*               yielded row goes through TicketDetailsStream.post_process *)
(*               before it is emitted.                                     *)
(* SpecSync      one run of the tickets stream with its two child streams, *)
(*               ticket_details and messages: child contexts, child        *)
(*               fetches, bookmarks and checkpoints.                       *)
(* SpecPaginate  the page loop of the integrations stream.                 *)
(*                                                                         *)
(* The stream classes derive from GorgiasStream (tap_gorgias/client.py),   *)
(* whose source is not among the files modelled.  The sync loop, the state *)
(* tracker and the page loop are therefore modelled from the design        *)
(* document (sections 4.1, 4.2, 4.4, 4.5, 5); what streams.py declares     *)
(* (names, paths, keys, get_child_context, the next-page path) is modelled *)
(* from the code.                                                          *)
(*                                                                         *)
(* JSON objects are functions from string keys to values.  The one mapping *)
(* whose iteration order the code depends on, customer.integrations, is an *)
(* insertion-ordered dict: a sequence of [key, value] entries with         *)
(* pairwise distinct keys.                                                 *)
(***************************************************************************)
EXTENDS Integers, Sequences, FiniteSets, TLC

VARIABLES
    \* the ticket_details pipeline
    response,   \* the JSON body of the HTTP response being processed
    yielded,    \* the rows parse_response has yielded for it
    row,        \* the row post_process returned (NoRow before that)
    raised,     \* the exception that ended the processing, or "none"
    pc,         \* "fetched" -> "parsed" -> "processed" | "failed"
    \* the sync run
    parentRecords,  \* the records the tickets stream yields, in order
    pos,            \* how many of them have been yielded so far
    contexts,       \* the outcome of get_child_context for each of them
    childSyncs,     \* for each of them, the status of its child syncs
    fetchLog,       \* the child fetches issued, in order
    emitted,        \* the parent records observed and emitted, in order
    bookmarks,      \* the tracker's in-memory state: state key -> entry
    persisted,      \* the state as of the last checkpoint
    checkpointed,   \* the cursor position (records emitted) it covers
    syncError,      \* the error that ended the run, or "none"
    syncPc,         \* "next" | "children" | "done" | "failed"
    \* the page loop
    server,     \* the page sequence the API serves
    token,      \* the continuation token of the next request
    pages,      \* the pages yielded so far
    pagePc      \* "running" | "stopped"

pipelineVars == <<response, yielded, row, raised, pc>>
syncVars == <<parentRecords, pos, contexts, childSyncs, fetchLog, emitted,
              bookmarks, persisted, checkpointed, syncError, syncPc>>
pageVars == <<server, token, pages, pagePc>>
vars == <<pipelineVars, syncVars, pageVars>>

NoRow == [none |-> TRUE]

(***************************************************************************)
(* Bounds of the model.                                                    *)
(***************************************************************************)
MaxMessages == 2
MaxIntegrations == 2
MaxParents == 2
MaxStamp == 3
MaxPages == 4
MaxPageCount == 3

(***************************************************************************)
(* Python dict operations.                                                 *)
(***************************************************************************)
\* dict.pop(key, None) on a JSON object: the object without the key.
Pop(d, key) == [k \in DOMAIN d \ {key} |-> d[k]]

\* d[key] = value on a JSON object.
SetItem(d, key, value) ==
    [k \in DOMAIN d \cup {key} |-> IF k = key THEN value ELSE d[k]]

\* list(d.keys()) of an insertion-ordered dict.
DictKeys(d) == [i \in 1..Len(d) |-> d[i].key]

DictHas(d, key) == \E i \in 1..Len(d) : d[i].key = key

\* d[key] of an insertion-ordered dict that holds the key.
DictGet(d, key) == d[CHOOSE i \in 1..Len(d) : d[i].key = key].value

\* d.pop(key) of an insertion-ordered dict: what is left of the dict.
DictPop(d, key) == SelectSeq(d, LAMBDA e : e.key # key)

\* d[key] = value of an insertion-ordered dict: a key it holds keeps its
\* place, a new key goes last.
DictSet(d, key, value) ==
    IF DictHas(d, key)
    THEN [i \in 1..Len(d) |->
             IF d[i].key = key THEN [key |-> key, value |-> value] ELSE d[i]]
    ELSE Append(d, [key |-> key, value |-> value])

(***************************************************************************)
(* TicketDetailsStream                                                     *)
(***************************************************************************)
\* The top-level property names the ticket_details schema declares.
TicketDetailsSchema ==
    {"id", "assignee_user", "channel", "closed_datetime", "created_datetime",
     "customer", "events", "external_id", "from_agent", "is_unread",
     "language", "last_message_datetime", "last_received_message_datetime",
     "opened_datetime", "priority", "snooze_datetime", "spam", "status",
     "subject", "tags", "trashed_datetime", "updated_datetime", "via", "uri"}

\* The loop of parse_response over the snapshot list(integrations.keys()):
\* an entry whose discriminator is "shopify" is popped, stored under the key
\* "shopify", and given its original key as "id".
RECURSIVE SwapKeys(_, _)
SwapKeys(integrations, keys) ==
    IF keys = <<>> THEN integrations
    ELSE LET key == Head(keys)
         IN  IF DictGet(integrations, key)["__integration_type__"] = "shopify"
             THEN LET popped == DictGet(integrations, key)
                      moved  == DictSet(DictPop(integrations, key), "shopify", popped)
                      withId == DictSet(moved, "shopify",
                                    SetItem(DictGet(moved, "shopify"), "id", key))
                  IN  SwapKeys(withId, Tail(keys))
             ELSE SwapKeys(integrations, Tail(keys))

\* parse_response: the rows the generator yields for one response body.
parse_response(resp) ==
    LET integrations == resp.customer.integrations
        swapped      == SwapKeys(integrations, DictKeys(integrations))
    IN  << SetItem(resp, "customer",
               SetItem(resp.customer, "integrations", swapped)) >>

\* The four pops post_process applies to the row and to each message.
PopBodies(d) ==
    Pop(Pop(Pop(Pop(d, "body_text"), "body_html"), "stripped_text"), "stripped_html")

\* post_process with the messages' html bodies left in (a forgotten pop).
post_process_keeps_message_html(r) ==
    IF "messages" \notin DOMAIN r
    THEN [row |-> NoRow, raised |-> "KeyError"]
    ELSE LET top == PopBodies(r)
         IN  [row |-> SetItem(top, "messages",
                         [i \in 1..Len(top.messages) |->
                             Pop(Pop(top.messages[i], "body_text"), "stripped_text")]),
              raised |-> "none"]

\* post_process: the row returned, or the KeyError of row["messages"].
post_process(r) ==
    IF "messages" \notin DOMAIN r
    THEN [row |-> NoRow, raised |-> "KeyError"]
    ELSE LET top == PopBodies(r)
         IN  [row |-> SetItem(top, "messages",
                         [i \in 1..Len(top.messages) |-> PopBodies(top.messages[i])]),
              raised |-> "none"]

(***************************************************************************)
(* The response bodies the pipeline is run on.  Every body has              *)
(* customer.integrations and every sub-object of it has the discriminator  *)
(* __integration_type__, which parse_response reads without a check.       *)
(***************************************************************************)
PrunedFields == {"body_text", "body_html", "stripped_text", "stripped_html"}

IntegrationKeys == {"101", "202", "shopify"}
IntegrationTypes == {"shopify", "email"}

\* A sub-object of customer.integrations; "orders" tells the entries apart.
Integration(type, n) == ("__integration_type__" :> type) @@ ("orders" :> n)

IntegrationDicts ==
    UNION { { [i \in 1..n |-> [key |-> ks[i], value |-> Integration(ts[i], i)]] :
                ks \in { f \in [1..n -> IntegrationKeys] :
                           \A i, j \in 1..n : f[i] = f[j] => i = j },
                ts \in [1..n -> IntegrationTypes] } :
            n \in 0..MaxIntegrations }

Message(n, fields) == ("id" :> n) @@ [k \in fields |-> "text"]

MessageLists ==
    UNION { { [i \in 1..n |-> Message(i, fs[i])] :
                fs \in [1..n -> SUBSET PrunedFields] } :
            n \in 0..MaxMessages }

Ticket(fields, integrations) ==
    [id |-> 1, subject |-> "s", customer |-> [id |-> 7, integrations |-> integrations]]
        @@ [k \in fields |-> "text"]

WithMessages(ticket, messages) == SetItem(ticket, "messages", messages)

OneShopify == << [key |-> "101", value |-> Integration("shopify", 1)] >>

Responses ==
    \* every shape of the pruned fields, one integrations mapping
    { WithMessages(Ticket(fs, OneShopify), ms) :
        fs \in SUBSET PrunedFields, ms \in MessageLists }
    \* every integrations mapping, one shape of the pruned fields
    \cup { WithMessages(Ticket(PrunedFields, d), << Message(1, PrunedFields) >>) :
             d \in IntegrationDicts }
    \* a body without the messages array
    \cup { Ticket(fs, OneShopify) : fs \in {{}, PrunedFields} }

(***************************************************************************)
(* TicketsStream and its child streams, as streams.py declares them.       *)
(***************************************************************************)
\* An endpoint path is a sequence of segments: literal text, a {placeholder},
\* or (once formatted) a value.
Lit(s) == [lit |-> s]
Var(n) == [var |-> n]
Val(v) == [val |-> v]

\* replication_key naming another timestamp of the record.
TicketsStream_replication_key_created == "created_datetime"

TicketsStream_replication_key == "updated_datetime"

TicketDetailsStream_path == << Lit("api"), Lit("tickets"), Var("ticket_id") >>
MessagesStream_path == << Lit("api"), Lit("tickets"), Var("ticket_id"), Lit("messages") >>

\* state_partitioning_keys left at the parent context's key.
MessagesStream_state_partitioning_keys_by_ticket == {"ticket_id"}

\* state_partitioning_keys = [] in both child classes.
TicketDetailsStream_state_partitioning_keys == {}
MessagesStream_state_partitioning_keys == {}

\* The streams whose parent_stream_type is TicketsStream.
ChildStreams == {"ticket_details", "messages"}

path(stream) ==
    IF stream = "ticket_details" THEN TicketDetailsStream_path ELSE MessagesStream_path

state_partitioning_keys(stream) ==
    IF stream = "ticket_details"
    THEN TicketDetailsStream_state_partitioning_keys
    ELSE MessagesStream_state_partitioning_keys

NoContext == [none |-> TRUE]

\* get_child_context taking the ticket_id from another field of the record.
get_child_context_wrong_field(record) ==
    [context |-> ("ticket_id" :> record.updated_datetime), raised |-> "none"]

\* get_child_context naming the context key after the record's field.
get_child_context_wrong_key(record) ==
    IF "id" \in DOMAIN record
    THEN [context |-> ("id" :> record.id), raised |-> "none"]
    ELSE [context |-> NoContext, raised |-> "KeyError"]

\* get_child_context: {"ticket_id": record["id"]}, or the KeyError of
\* record["id"].
get_child_context(record) ==
    IF "id" \in DOMAIN record
    THEN [context |-> ("ticket_id" :> record.id), raised |-> "none"]
    ELSE [context |-> NoContext, raised |-> "KeyError"]

(***************************************************************************)
(* The engine the streams run on (design document, sections 4.2 to 5).     *)
(***************************************************************************)
\* The placeholders an endpoint template requires.
Placeholders(template) ==
    { template[i].var : i \in { j \in DOMAIN template : "var" \in DOMAIN template[j] } }

\* The request path: the template with the context's values filled in; a
\* placeholder the context does not hold stays as it is.
get_url(template, context) ==
    [i \in DOMAIN template |->
        IF "var" \in DOMAIN template[i] /\ template[i].var \in DOMAIN context
        THEN Val(context[template[i].var])
        ELSE template[i]]

\* The key of a stream's bookmark: the stream name and the part of the
\* context that its state partitioning keys select.
StateKey(stream, context) ==
    [stream |-> stream,
     partition |->
        IF context = NoContext THEN <<>>
        ELSE LET keys == DOMAIN context \cap state_partitioning_keys(stream)
             IN  IF keys = {} THEN <<>> ELSE [k \in keys |-> context[k]]]

TicketsKey == StateKey("tickets", NoContext)

\* The entry of a sync that tracks no replication value: created once.
Touch(state, key) ==
    IF key \in DOMAIN state THEN state
    ELSE [k \in DOMAIN state \cup {key} |-> IF k = key THEN <<>> ELSE state[k]]

\* observe: the high-water mark moves only up.
observe(state, key, candidateValue) ==
    IF /\ key \in DOMAIN state
       /\ "replication_key_value" \in DOMAIN state[key]
       /\ ~(candidateValue > state[key].replication_key_value)
    THEN state
    ELSE [k \in DOMAIN state \cup {key} |->
             IF k = key THEN [replication_key_value |-> candidateValue]
             ELSE state[k]]

\* resume: the bookmark of a stream key, <<>> when there is none.
resume(state, key) ==
    IF key \in DOMAIN state /\ "replication_key_value" \in DOMAIN state[key]
    THEN << state[key].replication_key_value >>
    ELSE <<>>

(***************************************************************************)
(* IntegreationsStream paging.                                             *)
(***************************************************************************)
\* The path of the link to the previous items instead.
next_page_token_jsonpath_prev == << "meta", "prev_items" >>

\* next_page_token_jsonpath = "$.meta.next_items"
next_page_token_jsonpath == << "meta", "next_items" >>

\* The value at a path of keys in a JSON object, <<>> (null) if there is none.
RECURSIVE JsonPath(_, _)
JsonPath(json, keys) ==
    IF keys = <<>> THEN json
    ELSE IF Head(keys) \in DOMAIN json
         THEN JsonPath(json[Head(keys)], Tail(keys))
         ELSE <<>>

\* The page the API serves for a token (<<>>: the first request).  Page i of
\* n links to page i + 1; the last page links to server.last, which is null
\* or goes back to an earlier page.
ServePage(srv, tok) ==
    LET i == IF tok = <<>> THEN 1 ELSE tok[1]
    IN  [data |-> IF srv.empty[i] THEN <<>> ELSE << [id |-> i] >>,
         meta |-> [next_items |-> IF i < srv.n THEN << i + 1 >> ELSE srv.last,
                   prev_items |-> IF i = 1 THEN <<>> ELSE << i - 1 >>]]

Servers ==
    UNION { [n : {n}, last : {<<>>} \cup { <<c>> : c \in 1..n }, empty : [1..n -> BOOLEAN]] :
            n \in 1..MaxPages }

(***************************************************************************)
(* The ticket records of a run.                                            *)
(***************************************************************************)
TicketIds == {1, 2}

TicketRecords ==
    { [updated_datetime |-> t, created_datetime |-> 1] @@ ident :
        t \in 1..MaxStamp,
        ident \in { <<>> } \cup { [id |-> n] : n \in TicketIds } }

ParentRuns == UNION { [1..n -> TicketRecords] : n \in 0..MaxParents }

(***************************************************************************)
(* Each specification runs one part and leaves the others idle.            *)
(***************************************************************************)
PipelineIdle ==
    /\ response = NoRow
    /\ yielded = <<>>
    /\ row = NoRow
    /\ raised = "none"
    /\ pc = "idle"

SyncIdle ==
    /\ parentRecords = <<>>
    /\ pos = 0
    /\ contexts = <<>>
    /\ childSyncs = <<>>
    /\ fetchLog = <<>>
    /\ emitted = <<>>
    /\ bookmarks = <<>>
    /\ persisted = <<>>
    /\ checkpointed = 0
    /\ syncError = "none"
    /\ syncPc = "idle"

PageIdle ==
    /\ server = [n |-> 0, last |-> <<>>, empty |-> <<>>]
    /\ token = <<>>
    /\ pages = <<>>
    /\ pagePc = "idle"

(***************************************************************************)
(* The pipeline.                                                           *)
(***************************************************************************)
Init ==
    /\ response \in Responses
    /\ yielded = <<>>
    /\ row = NoRow
    /\ raised = "none"
    /\ pc = "fetched"
    /\ SyncIdle
    /\ PageIdle

ParseResponse ==
    /\ pc = "fetched"
    /\ yielded' = parse_response(response)
    /\ pc' = "parsed"
    /\ UNCHANGED <<response, row, raised, syncVars, pageVars>>

PostProcess ==
    /\ pc = "parsed"
    /\ LET result == post_process(yielded[1])
       IN  /\ row' = result.row
           /\ raised' = result.raised
           /\ pc' = IF result.raised = "none" THEN "processed" ELSE "failed"
    /\ UNCHANGED <<response, yielded, syncVars, pageVars>>

Next == ParseResponse \/ PostProcess

Spec == Init /\ [][Next]_vars

(***************************************************************************)
(* The sync run: tickets, and for each ticket its child syncs.             *)
(***************************************************************************)
InitSync ==
    /\ parentRecords \in ParentRuns
    /\ pos = 0
    /\ contexts = <<>>
    /\ childSyncs = <<>>
    /\ fetchLog = <<>>
    /\ emitted = <<>>
    /\ bookmarks = <<>>
    /\ persisted = <<>>
    /\ checkpointed = 0
    /\ syncError = "none"
    /\ syncPc = "next"
    /\ PipelineIdle
    /\ PageIdle

\* The tickets stream yields its next record and the record's child context
\* is resolved; a record without one fails the stream.
NextParentRecord ==
    /\ syncPc = "next"
    /\ pos < Len(parentRecords)
    /\ LET resolved == get_child_context(parentRecords[pos + 1])
       IN  /\ pos' = pos + 1
           /\ contexts' = Append(contexts, resolved)
           /\ IF resolved.raised = "none"
              THEN /\ childSyncs' = Append(childSyncs, [c \in ChildStreams |-> "pending"])
                   /\ syncPc' = "children"
                   /\ UNCHANGED syncError
              ELSE /\ childSyncs' = Append(childSyncs, [c \in ChildStreams |-> "not spawned"])
                   /\ syncPc' = "failed"
                   /\ syncError' = resolved.raised
    /\ UNCHANGED <<parentRecords, fetchLog, emitted, bookmarks, persisted, checkpointed>>
    /\ UNCHANGED <<pipelineVars, pageVars>>

\* A child sync of the current parent record starts: it fetches its path.
StartChildSync(c) ==
    /\ syncPc = "children"
    /\ childSyncs[pos][c] = "pending"
    /\ \A d \in ChildStreams : childSyncs[pos][d] # "running"
    /\ childSyncs' = [childSyncs EXCEPT ![pos][c] = "running"]
    /\ fetchLog' = Append(fetchLog,
           [stream |-> c, parent |-> pos, url |-> get_url(path(c), contexts[pos].context)])
    /\ UNCHANGED <<parentRecords, pos, contexts, emitted, bookmarks, persisted,
                   checkpointed, syncError, syncPc>>
    /\ UNCHANGED <<pipelineVars, pageVars>>

\* It completes: its records went under the stream's bookmark key.
FinishChildSync(c) ==
    /\ syncPc = "children"
    /\ childSyncs[pos][c] = "running"
    /\ childSyncs' = [childSyncs EXCEPT ![pos][c] = "completed"]
    /\ bookmarks' = Touch(bookmarks, StateKey(c, contexts[pos].context))
    /\ UNCHANGED <<parentRecords, pos, contexts, fetchLog, emitted, persisted,
                   checkpointed, syncError, syncPc>>
    /\ UNCHANGED <<pipelineVars, pageVars>>

\* Or it fails: the failure is recorded and ends the run.
FailChildSync(c) ==
    /\ syncPc = "children"
    /\ childSyncs[pos][c] = "running"
    /\ childSyncs' = [childSyncs EXCEPT ![pos][c] = "failed"]
    /\ syncError' = "FetchError"
    /\ syncPc' = "failed"
    /\ UNCHANGED <<parentRecords, pos, contexts, fetchLog, emitted, bookmarks,
                   persisted, checkpointed>>
    /\ UNCHANGED <<pipelineVars, pageVars>>

\* With its child syncs complete, the parent record is observed and emitted.
EmitParentRecord ==
    /\ syncPc = "children"
    /\ \A c \in ChildStreams : childSyncs[pos][c] = "completed"
    /\ bookmarks' = observe(bookmarks, TicketsKey,
                            parentRecords[pos][TicketsStream_replication_key])
    /\ emitted' = Append(emitted, parentRecords[pos])
    /\ syncPc' = "next"
    /\ UNCHANGED <<parentRecords, pos, contexts, childSyncs, fetchLog, persisted,
                   checkpointed, syncError>>
    /\ UNCHANGED <<pipelineVars, pageVars>>

\* checkpoint: the bookmarks are persisted, between parent records only.
Checkpoint ==
    /\ syncPc \in {"next", "done", "failed"}
    /\ persisted # bookmarks \/ checkpointed # Len(emitted)
    /\ persisted' = bookmarks
    /\ checkpointed' = Len(emitted)
    /\ UNCHANGED <<parentRecords, pos, contexts, childSyncs, fetchLog, emitted,
                   bookmarks, syncError, syncPc>>
    /\ UNCHANGED <<pipelineVars, pageVars>>

FinishRun ==
    /\ syncPc = "next"
    /\ pos = Len(parentRecords)
    /\ syncPc' = "done"
    /\ UNCHANGED <<parentRecords, pos, contexts, childSyncs, fetchLog, emitted,
                   bookmarks, persisted, checkpointed, syncError>>
    /\ UNCHANGED <<pipelineVars, pageVars>>

NextSync ==
    \/ NextParentRecord
    \/ \E c \in ChildStreams : StartChildSync(c)
    \/ \E c \in ChildStreams : FinishChildSync(c)
    \/ \E c \in ChildStreams : FailChildSync(c)
    \/ EmitParentRecord
    \/ Checkpoint
    \/ FinishRun

SpecSync == InitSync /\ [][NextSync]_vars

(***************************************************************************)
(* The page loop.                                                          *)
(***************************************************************************)
InitPaginate ==
    /\ server \in Servers
    /\ token = <<>>
    /\ pages = <<>>
    /\ pagePc = "running"
    /\ PipelineIdle
    /\ SyncIdle

\* One fetch: the page is yielded; the loop ends on a page without a
\* continuation token, on an empty page, and at the maximum page count.
FetchPage ==
    /\ pagePc = "running"
    /\ LET page == ServePage(server, token)
           next == JsonPath(page, next_page_token_jsonpath)
       IN  /\ pages' = Append(pages, page)
           /\ IF next = <<>> \/ page.data = <<>> \/ Len(pages) + 1 >= MaxPageCount
              THEN pagePc' = "stopped" /\ UNCHANGED token
              ELSE pagePc' = "running" /\ token' = next
    /\ UNCHANGED server
    /\ UNCHANGED <<pipelineVars, syncVars>>

NextPaginate == FetchPage

SpecPaginate == InitPaginate /\ [][NextPaginate]_vars /\ WF_vars(FetchPage)

(***************************************************************************)
(* Properties of the ticket_details pipeline (checked under Spec).         *)
(***************************************************************************)
\* The places of the "shopify"-typed entries of an integrations mapping.
ShopifyEntries(d) ==
    { i \in 1..Len(d) : d[i].value["__integration_type__"] = "shopify" }

IntegrationsIn == response.customer.integrations
IntegrationsOut == yielded[1].customer.integrations

\* C1: when exactly one entry of customer.integrations has the discriminator
\* "shopify", stored under key k, the yielded record's mapping holds that
\* sub-object under "shopify" with id = k, and k itself is gone (read for
\* k # "shopify": for k = "shopify" the first part already keeps the key).
C1_SingleShopifyNormalized ==
    (pc # "fetched" /\ Cardinality(ShopifyEntries(IntegrationsIn)) = 1) =>
        LET i == CHOOSE j \in ShopifyEntries(IntegrationsIn) : TRUE
            k == IntegrationsIn[i].key
        IN  /\ Len(yielded) = 1
            /\ DictHas(IntegrationsOut, "shopify")
            /\ DictGet(IntegrationsOut, "shopify")
                   = SetItem(IntegrationsIn[i].value, "id", k)
            /\ k # "shopify" => ~DictHas(IntegrationsOut, k)

\* C2: when two or more entries of customer.integrations have the
\* discriminator "shopify", parse_response fails with TransformError and
\* yields no record.
C2_AmbiguousIsError ==
    (pc # "fetched" /\ Cardinality(ShopifyEntries(IntegrationsIn)) >= 2) =>
        /\ raised = "TransformError"
        /\ yielded = <<>>

\* C3: the row post_process returns for a record with a messages array has
\* none of the four body fields at the top level nor in any message, and its
\* messages are the record's messages, as many and in the same order, each
\* with only those fields removed.
C3_BodiesPruned ==
    pc = "processed" =>
        LET before == yielded[1]
        IN  /\ DOMAIN row \cap PrunedFields = {}
            /\ Len(row.messages) = Len(before.messages)
            /\ \A i \in 1..Len(row.messages) :
                  /\ DOMAIN row.messages[i] = DOMAIN before.messages[i] \ PrunedFields
                  /\ row.messages[i].id = before.messages[i].id

C3_Witness ==
    /\ pc = "processed"
    /\ Len(yielded[1].messages) = 2
    /\ PrunedFields \subseteq DOMAIN yielded[1]
    /\ PrunedFields \subseteq DOMAIN yielded[1].messages[1]
    /\ DOMAIN yielded[1].messages[2] \cap PrunedFields = {"stripped_html"}
    /\ row.messages[1].id = 1
    /\ row.messages[2].id = 2

\* C4: every top-level key of a ticket_details record that has passed
\* parse_response and post_process is a property the ticket_details schema
\* declares.
C4_TicketDetailsConformsToSchema ==
    pc = "processed" => DOMAIN row \subseteq TicketDetailsSchema

\* C10: parse_response yields exactly one record; every entry of
\* customer.integrations whose discriminator is not "shopify" is still there
\* under its key with its content, and the rest of the response is unchanged.
C10_NormalizationFrame ==
    pc # "fetched" =>
        /\ Len(yielded) = 1
        /\ \A i \in 1..Len(IntegrationsIn) :
              i \notin ShopifyEntries(IntegrationsIn) =>
                  /\ DictHas(IntegrationsOut, IntegrationsIn[i].key)
                  /\ DictGet(IntegrationsOut, IntegrationsIn[i].key)
                         = IntegrationsIn[i].value
        /\ Pop(yielded[1], "customer") = Pop(response, "customer")
        /\ Pop(yielded[1].customer, "integrations")
               = Pop(response.customer, "integrations")

(***************************************************************************)
(* Properties of the sync run (checked under SpecSync).                    *)
(***************************************************************************)
MessagesFetches == SelectSeq(fetchLog, LAMBDA f : f.stream = "messages")

\* /api/tickets/{id}/messages
MessagesUrl(id) == << Lit("api"), Lit("tickets"), Val(id), Lit("messages") >>

MaxOf(S) == CHOOSE m \in S : \A x \in S : x <= m

\* The tickets bookmark after observing the first n emitted records.
BookmarkAfter(n) ==
    IF n = 0 THEN <<>>
    ELSE << MaxOf({ emitted[i].updated_datetime : i \in 1..n }) >>

\* C5: the messages stream fetches /api/tickets/{id}/messages for the parent
\* records in the order tickets yields them, each fetch after its parent
\* record was yielded, one for every record of a run that completes; and a
\* checkpoint of the tickets bookmark covers a cursor position only when
\* every child sync of the records up to it has completed or failed.
C5_ParentChildOrder ==
    /\ Len(MessagesFetches) <= pos
    /\ \A i \in 1..Len(MessagesFetches) :
          /\ MessagesFetches[i].parent = i
          /\ "id" \in DOMAIN parentRecords[i]
          /\ MessagesFetches[i].url = MessagesUrl(parentRecords[i].id)
    /\ Len(emitted) <= Len(MessagesFetches)
    /\ syncPc = "done" => Len(MessagesFetches) = Len(parentRecords)
    /\ checkpointed <= pos
    /\ \A i \in 1..checkpointed : \A c \in ChildStreams :
          childSyncs[i][c] \in {"completed", "failed"}
    /\ resume(persisted, TicketsKey) = BookmarkAfter(checkpointed)

C5_Witness ==
    /\ syncPc = "done"
    /\ Len(parentRecords) = 2
    /\ parentRecords[1].id = 1
    /\ parentRecords[2].id = 2
    /\ Len(MessagesFetches) = 2
    /\ checkpointed = 2

C7_SharedChildBookmark ==
    \A state \in {bookmarks, persisted} : \A s \in ChildStreams :
        LET keys == { k \in DOMAIN state : k.stream = s }
        IN  /\ Cardinality(keys) <= 1
            /\ \A k \in keys : k.partition = <<>>

C7_Witness ==
    /\ Len(emitted) = 2
    /\ emitted[1].id # emitted[2].id
    /\ StateKey("messages", NoContext) \in DOMAIN persisted
    /\ StateKey("ticket_details", NoContext) \in DOMAIN persisted

TicketsBookmark ==
    IF resume(bookmarks, TicketsKey) = <<>> THEN 0 ELSE resume(bookmarks, TicketsKey)[1]

\* C8: the tickets bookmark never decreases from one state to the next, and
\* resume returns the maximum updated_datetime observed so far.
C8_HighWaterMark ==
    /\ [](resume(bookmarks, TicketsKey) = BookmarkAfter(Len(emitted)))
    /\ [][TicketsBookmark' >= TicketsBookmark]_vars

C8_Witness ==
    /\ Len(emitted) = 2
    /\ emitted[1].updated_datetime = 3
    /\ emitted[2].updated_datetime = 1
    /\ resume(bookmarks, TicketsKey) = << 3 >>

(***************************************************************************)
(* Properties of the page loop (checked under SpecPaginate).               *)
(***************************************************************************)
\* The pages of the server, first to last.
ServerPages ==
    [i \in 1..server.n |-> ServePage(server, IF i = 1 THEN <<>> ELSE << i >>)]

====
